---- MODULE Spec2Model ----
(***************************************************************************)
(* generate-icons.py: main() creates images/icons and calls create_icon    *)
(* once per PWA icon size; create_icon draws a canvas, a border and the    *)
(* centered text "IM" and saves it as a PNG.                               *)
(*                                                                         *)
(* The program is sequential.  pc is the position in the script, the       *)
(* locals of create_icon are variables, and the environment (the file      *)
(* system, the font file, the font's metrics) is state the script reads.   *)
(***************************************************************************)
EXTENDS Integers, Sequences, FiniteSets, TLC

\* ---------------------------------------------------------------- bounds
\* Runs of the script in one behaviour.
MaxRuns == 2
\* Times the system font appears or disappears during one behaviour.
MaxFontFlips == 2
\* Largest size create_icon is called with directly (SpecIcon).
MaxSize == 520
\* Largest left side bearing (bbox[0]) the font reports.
MaxBearing == 1

VARIABLES
    pc,             \* position in the script
    run,            \* which run of the script this is
    completed,      \* runs that reached the end of main()
    crash,          \* the call whose exception ended the run, or "none"
    dirState,       \* images/icons: "absent", "dir" or "file"
    fs,             \* files under images/icons: path -> content
    snapshot,       \* fs when main() last completed
    written,        \* paths saved by this run, in order
    calls,          \* sizes create_icon was called with by this run, in order
    stdout,         \* lines printed by this run
    i,              \* main: sizes consumed by the for loop (0: called directly)
    size,           \* create_icon: size
    output_path,    \* create_icon: output_path
    img,            \* create_icon: img
    border_width,   \* create_icon: border_width
    font,           \* create_icon: font
    bbox,           \* create_icon: bbox
    x,              \* create_icon: x
    y,              \* create_icon: y
    fontAvailable,  \* whether /System/Library/Fonts/Helvetica.ttc can be loaded
    flips,          \* times fontAvailable changed
    face            \* the metrics the fonts report for the text

vars == <<pc, run, completed, crash, dirState, fs, snapshot, written, calls,
          stdout, i, size, output_path, img, border_width, font, bbox, x, y,
          fontAvailable, flips, face>>

env == <<fontAvailable, flips, face>>
locals == <<size, output_path, img, border_width, font, bbox, x, y>>

\* --------------------------------------------------------------- helpers
Max(a, b) == IF a >= b THEN a ELSE b

\* Python's // on integers: floor division (the divisors here are positive).
FloorDiv(a, b) == a \div b

Range(s) == {s[k] : k \in 1..Len(s)}

\* ------------------------------------------------------------------ main
\* The list with 152 mistyped as a second 144.
sizesRepeated == <<72, 96, 128, 144, 144, 192, 384, 512>>

sizes == <<72, 96, 128, 144, 152, 192, 384, 512>>

icons_dir == "images/icons"

\* f'{icons_dir}/icon-{size}x{size}.png'
OutputPath(sz) ==
    icons_dir \o "/icon-" \o ToString(sz) \o "x" \o ToString(sz) \o ".png"

\* f"Created {output_path} ({size}x{size})"
CreatedLine(path, sz) ==
    "Created " \o path \o " (" \o ToString(sz) \o "x" \o ToString(sz) \o ")"

\* f"\nSuccessfully generated {len(sizes)} PWA icons!"
SummaryLine ==
    "\nSuccessfully generated " \o ToString(Len(sizes)) \o " PWA icons!"

\* Propagate with the call wrapped in a try whose handler goes on with the
\* loop.
PropagateSwallowed(cause) ==
    /\ pc' = "loop"
    /\ crash' = cause

\* An exception nothing catches ends the run where it is raised.
Propagate(cause) ==
    /\ pc' = "crashed"
    /\ crash' = cause

\* ----------------------------------------------------------- create_icon
\* ImageNew with the dimensions of the largest icon written in.
ImageNewFixed(mode, wh, color) ==
    [mode |-> mode, size |-> <<512, 512>>, color |-> color, ops |-> <<>>]

\* ImageNew with one canvas kept across calls: what was drawn stays on it.
ImageNewReused(mode, wh, color) ==
    [mode |-> mode, size |-> wh, color |-> color, ops |-> img.ops]

\* Image.new(mode, (w, h), color=...): a fresh canvas, nothing drawn on it.
ImageNew(mode, wh, color) ==
    [mode |-> mode, size |-> wh, color |-> color, ops |-> <<>>]

NoImage == [mode |-> "", size |-> <<0, 0>>, color |-> "", ops |-> <<>>]

\* BorderWidth without the minimum.
BorderWidthNoMin(sz) == FloorDiv(sz, 40)

\* border_width = max(2, size // 40)
BorderWidth(sz) == Max(2, FloorDiv(sz, 40))

\* [(border_width, border_width), (size - border_width, size - border_width)]
BorderRect(sz, bw) == <<bw, bw, sz - bw, sz - bw>>

\* A rectangle <<x0, y0, x1, y1>> whose corners are in order.
WellFormed(r) == r[1] <= r[3] /\ r[2] <= r[4]

\* draw.rectangle: Pillow draws a rectangle whose corners are in order; one
\* whose corners are not is refused with ValueError by the Pillow releases
\* that check and drawn as nothing by the ones that do not.
RectangleOutcomes(r) ==
    IF WellFormed(r) THEN {"ok"} ELSE {"ok", "ValueError"}

\* shadow_offset = max(1, size // 100)
ShadowOffset(sz) == Max(1, FloorDiv(sz, 100))

\* The pixel size of ImageFont.load_default().
DefaultFontSize == 10

NoFont == [kind |-> "none", size |-> 0]

\* ImageFont.truetype(path, font_size) returns the font when the file can be
\* read and the size is positive, and raises otherwise.
TrueTypeLoads(font_size, available) == available /\ font_size > 0

\* draw.textbbox((0, 0), "IM", font=font): (left, top, right, bottom).  The
\* ink starts at the font's left side bearing and a quarter of the font size
\* below the origin, and is as wide as the font size and three quarters of
\* it tall.
TextBBox(f, fc) ==
    LET top == FloorDiv(f.size, 4)
    IN  <<fc.left, top, fc.left + f.size, top + FloorDiv(3 * f.size, 4)>>

\* x = (size - text_width) // 2
CenterX(sz, bb) == FloorDiv(sz - (bb[3] - bb[1]), 2)

\* y = (size - text_height) // 2 - bbox[1]
CenterY(sz, bb) == FloorDiv(sz - (bb[4] - bb[2]), 2) - bb[2]

\* img.save(output_path, 'PNG'): the encoded file.
Png(image) == [format |-> "PNG", image |-> image]

\* What a failed save may leave of a file it had begun to write.
Truncated(image) == [format |-> "truncated", image |-> image]

\* A file that was in the directory before the script ever ran.
OldFile ==
    [format |-> "PNG",
     image |-> [mode |-> "RGBA", size |-> <<16, 16>>, color |-> "#000000",
                ops |-> <<>>]]

EmptyFs == [p \in {} |-> OldFile]

\* The file system with `path` holding `content`.
WriteFile(files, path, content) ==
    [p \in DOMAIN files \cup {path} |-> IF p = path THEN content ELSE files[p]]

\* ------------------------------------------------------------ the script
\* MakeDirsOutcomes without exist_ok=True: an existing directory is refused.
MakeDirsNotExistOk(d) ==
    CASE d = "absent" -> {"ok", "PermissionError"}
      [] OTHER -> {"FileExistsError"}

\* os.makedirs(icons_dir, exist_ok=True): an existing directory is accepted,
\* an existing file of that name is not, and a missing directory is created
\* unless the parent refuses.
MakeDirsOutcomes(d) ==
    CASE d = "dir" -> {"ok"}
      [] d = "file" -> {"FileExistsError"}
      [] OTHER -> {"ok", "PermissionError"}

\* main, lines 53-57.
MakeDirs ==
    /\ pc = "main"
    /\ \E outcome \in MakeDirsOutcomes(dirState) :
          IF outcome = "ok"
          THEN /\ dirState' = "dir"
               /\ pc' = "loop"
               /\ crash' = crash
          ELSE /\ dirState' = dirState
               /\ Propagate("makedirs")
    /\ i' = 0
    /\ UNCHANGED <<run, completed, fs, snapshot, written, calls, stdout,
                   locals, env>>

\* ForNext over the list from its end.
ForNextReversed ==
    /\ pc = "loop"
    /\ IF i < Len(sizes)
       THEN /\ i' = i + 1
            /\ size' = sizes[Len(sizes) - i]
            /\ output_path' = OutputPath(sizes[Len(sizes) - i])
            /\ calls' = Append(calls, sizes[Len(sizes) - i])
            /\ pc' = "new"
       ELSE /\ pc' = "summary"
            /\ UNCHANGED <<i, size, output_path, calls>>
    /\ UNCHANGED <<run, completed, crash, dirState, fs, snapshot, written,
                   stdout, img, border_width, font, bbox, x, y, env>>

\* main, lines 60-62: the for loop takes the next size and calls create_icon
\* with it and the path built from it, or is exhausted.
ForNext ==
    /\ pc = "loop"
    /\ IF i < Len(sizes)
       THEN /\ i' = i + 1
            /\ size' = sizes[i + 1]
            /\ output_path' = OutputPath(sizes[i + 1])
            /\ calls' = Append(calls, sizes[i + 1])
            /\ pc' = "new"
       ELSE /\ pc' = "summary"
            /\ UNCHANGED <<i, size, output_path, calls>>
    /\ UNCHANGED <<run, completed, crash, dirState, fs, snapshot, written,
                   stdout, img, border_width, font, bbox, x, y, env>>

\* main, line 64, and the return from main.
Summary ==
    /\ pc = "summary"
    /\ stdout' = Append(stdout, SummaryLine)
    /\ pc' = "done"
    /\ completed' = completed + 1
    /\ snapshot' = fs
    /\ UNCHANGED <<run, crash, dirState, fs, written, calls, i, locals, env>>

\* create_icon, lines 11-12.
NewImage ==
    /\ pc = "new"
    /\ img' = ImageNew("RGB", <<size, size>>, "#4CAF50")
    /\ pc' = "border"
    /\ UNCHANGED <<run, completed, crash, dirState, fs, snapshot, written,
                   calls, stdout, i, size, output_path, border_width, font,
                   bbox, x, y, env>>

\* create_icon, lines 15-20.
DrawBorder ==
    /\ pc = "border"
    /\ border_width' = BorderWidth(size)
    /\ LET rect == BorderRect(size, border_width')
       IN  \E outcome \in RectangleOutcomes(rect) :
              IF outcome = "ok"
              THEN /\ img' = [img EXCEPT !.ops = Append(@,
                             [op |-> "rectangle", at |-> rect,
                              fill |-> "#2E7D32", width |-> border_width',
                              font |-> NoFont])]
                   /\ pc' = "font"
                   /\ crash' = crash
              ELSE /\ img' = img
                   /\ Propagate("rectangle")
    /\ UNCHANGED <<run, completed, dirState, fs, snapshot, written, calls,
                   stdout, i, size, output_path, font, bbox, x, y, env>>

\* FontFallback without the try: what truetype raised ends the run.
FontNoFallback ==
    /\ font' = font
    /\ Propagate("font")

\* create_icon, lines 27-29: the bare except takes whatever truetype raised
\* and the default font is used instead.
FontFallback ==
    /\ font' = [kind |-> "default", size |-> DefaultFontSize]
    /\ pc' = "measure"
    /\ crash' = crash

\* create_icon, lines 23-31.
LoadFont ==
    /\ pc = "font"
    /\ LET font_size == FloorDiv(size, 2)
       IN  IF TrueTypeLoads(font_size, fontAvailable)
           THEN /\ font' = [kind |-> "truetype", size |-> font_size]
                /\ pc' = "measure"
                /\ crash' = crash
           ELSE FontFallback
    /\ UNCHANGED <<run, completed, dirState, fs, snapshot, written, calls,
                   stdout, i, size, output_path, img, border_width, bbox, x,
                   y, env>>

\* create_icon, lines 34-40.
Measure ==
    /\ pc = "measure"
    /\ bbox' = TextBBox(font, face)
    /\ x' = CenterX(size, bbox')
    /\ y' = CenterY(size, bbox')
    /\ pc' = "text"
    /\ UNCHANGED <<run, completed, crash, dirState, fs, snapshot, written,
                   calls, stdout, i, size, output_path, img, border_width,
                   font, env>>

\* draw.text(at, "IM", fill=..., font=font)
TextOp(at, fill, f) ==
    [op |-> "IM", at |-> <<at[1], at[2], at[1], at[2]>>, fill |-> fill,
     width |-> 0, font |-> f]

\* create_icon, lines 43-45.
DrawText ==
    /\ pc = "text"
    /\ LET shadow_offset == ShadowOffset(size)
       IN  img' = [img EXCEPT !.ops =
                     @ \o <<TextOp(<<x + shadow_offset, y + shadow_offset>>,
                                   "#1B5E20", font),
                            TextOp(<<x, y>>, "white", font)>>]
    /\ pc' = "save"
    /\ UNCHANGED <<run, completed, crash, dirState, fs, snapshot, written,
                   calls, stdout, i, size, output_path, border_width, font,
                   bbox, x, y, env>>

\* img.save: the file is written whole, or the write fails and leaves the
\* old file, if any, as it was, or a truncated one.
SaveOutcomes == {"ok", "OSError", "OSError truncated"}

\* create_icon, line 48.
Save ==
    /\ pc = "save"
    /\ \E outcome \in SaveOutcomes :
          IF outcome = "ok"
          THEN /\ fs' = WriteFile(fs, output_path, Png(img))
               /\ written' = Append(written, output_path)
               /\ pc' = "print"
               /\ crash' = crash
          ELSE /\ fs' = IF outcome = "OSError" THEN fs
                        ELSE WriteFile(fs, output_path, Truncated(img))
               /\ written' = written
               /\ Propagate("save")
    /\ UNCHANGED <<run, completed, dirState, snapshot, calls, stdout, i,
                   locals, env>>

\* create_icon, line 49, and the return to the caller.
PrintCreated ==
    /\ pc = "print"
    /\ stdout' = Append(stdout, CreatedLine(output_path, size))
    /\ pc' = IF i = 0 THEN "returned" ELSE "loop"
    /\ UNCHANGED <<run, completed, crash, dirState, fs, snapshot, written,
                   calls, i, locals, env>>

\* The script is started again, in a new process, on the file system the
\* completed run left.  (A run that failed is followed no further.)
Rerun ==
    /\ pc = "done"
    /\ run < MaxRuns
    /\ run' = run + 1
    /\ pc' = "main"
    /\ crash' = "none"
    /\ written' = <<>>
    /\ calls' = <<>>
    /\ stdout' = <<>>
    /\ i' = 0
    /\ size' = 0
    /\ output_path' = ""
    /\ img' = NoImage
    /\ border_width' = 0
    /\ font' = NoFont
    /\ bbox' = <<0, 0, 0, 0>>
    /\ x' = 0
    /\ y' = 0
    /\ UNCHANGED <<completed, dirState, fs, snapshot, env>>

\* The font file appears or disappears.  Only the load reads it, so the
\* change is taken just before a load.
FontToggle ==
    /\ pc = "font"
    /\ flips < MaxFontFlips
    /\ fontAvailable' = ~fontAvailable
    /\ flips' = flips + 1
    /\ UNCHANGED <<pc, run, completed, crash, dirState, fs, snapshot, written,
                   calls, stdout, i, locals, face>>

\* ------------------------------------------------------- specifications
Faces == [left : 0..MaxBearing]

StrayPath == icons_dir \o "/favicon.ico"

\* The directory before the first run: missing, a file of that name, empty,
\* or holding files of an earlier generation.
InitialFs(d) ==
    IF d = "dir"
    THEN {EmptyFs,
          WriteFile(WriteFile(EmptyFs, OutputPath(sizes[1]), OldFile),
                    StrayPath, OldFile)}
    ELSE {EmptyFs}

InitLocals ==
    /\ img = NoImage
    /\ border_width = 0
    /\ font = NoFont
    /\ bbox = <<0, 0, 0, 0>>
    /\ x = 0
    /\ y = 0

InitEnv ==
    /\ fontAvailable \in BOOLEAN
    /\ flips = 0
    /\ face \in Faces

\* The script is run: python generate-icons.py.
Init ==
    /\ pc = "main"
    /\ run = 1
    /\ completed = 0
    /\ crash = "none"
    /\ dirState \in {"absent", "dir", "file"}
    /\ fs \in InitialFs(dirState)
    /\ snapshot = fs
    /\ written = <<>>
    /\ calls = <<>>
    /\ stdout = <<>>
    /\ i = 0
    /\ size = 0
    /\ output_path = ""
    /\ InitLocals
    /\ InitEnv

Next ==
    \/ MakeDirs
    \/ ForNext
    \/ Summary
    \/ NewImage
    \/ DrawBorder
    \/ LoadFont
    \/ Measure
    \/ DrawText
    \/ Save
    \/ PrintCreated
    \/ Rerun
    \/ FontToggle

Spec == Init /\ [][Next]_vars

\* create_icon(size, output_path) is called on its own, with any size up to
\* MaxSize, in an existing directory.
InitIcon ==
    /\ pc = "new"
    /\ run = 1
    /\ completed = 0
    /\ crash = "none"
    /\ dirState = "dir"
    /\ fs = EmptyFs
    /\ snapshot = fs
    /\ written = <<>>
    /\ stdout = <<>>
    /\ i = 0
    /\ size \in 1..MaxSize
    /\ calls = <<size>>
    /\ output_path = OutputPath(size)
    /\ InitLocals
    /\ InitEnv

NextIcon ==
    \/ NewImage
    \/ DrawBorder
    \/ LoadFont
    \/ Measure
    \/ DrawText
    \/ Save
    \/ PrintCreated
    \/ FontToggle

SpecIcon == InitIcon /\ [][NextIcon]_vars

\* ---------------------------------------------------------------- claims
\* The sizes and file names the specification lists.
ListOrder == <<72, 96, 128, 144, 152, 192, 384, 512>>

ExpectedPaths ==
    {"images/icons/icon-72x72.png", "images/icons/icon-96x96.png",
     "images/icons/icon-128x128.png", "images/icons/icon-144x144.png",
     "images/icons/icon-152x152.png", "images/icons/icon-192x192.png",
     "images/icons/icon-384x384.png", "images/icons/icon-512x512.png"}

\* The font the text of a saved icon was drawn with.
FontOf(file) == file.image.ops[Len(file.image.ops)].font

CreatedLines == {k \in 1..Len(stdout) : stdout[k] # SummaryLine}

\* C1: when main() has completed, create_icon was called exactly once per
\* size of the list, in order, and the files this run wrote are exactly the
\* eight paths images/icons/icon-{s}x{s}.png, each written once; a file of
\* another name that was in the directory is as it was.
C1_ExactlyEightFiles ==
    pc = "done" =>
        /\ calls = ListOrder
        /\ Len(written) = 8
        /\ Range(written) = ExpectedPaths
        /\ \A p \in DOMAIN fs \ ExpectedPaths : fs[p] = OldFile

C1_Witness ==
    /\ pc = "done"
    /\ run = 1
    /\ StrayPath \in DOMAIN fs
    /\ Len(written) = 8

\* C2: every file this run saved is an RGB PNG whose width and height both
\* equal the size in its name, and the canvas keeps the dimensions it was
\* allocated with through every drawing step up to the save.
C2_SquareOfNamedSize ==
    /\ \A k \in 1..Len(written) :
          \E s \in Range(ListOrder) :
             /\ written[k] = OutputPath(s)
             /\ fs[written[k]].format = "PNG"
             /\ fs[written[k]].image.mode = "RGB"
             /\ fs[written[k]].image.size = <<s, s>>
    /\ pc \in {"border", "font", "measure", "text", "save", "print"} =>
          /\ img.mode = "RGB"
          /\ img.size = <<size, size>>

C2_Witness ==
    /\ pc = "print"
    /\ size = 512
    /\ fs[output_path].image.size = <<512, 512>>
    /\ Len(fs[output_path].image.ops) = 3

\* C3: for every size >= 1 the border width is at least 2, is size // 40
\* when that is at least 2 (which is when size >= 80) and 2 otherwise; it is
\* 2, 2, 3, 3, 3, 4, 9, 12 for the eight sizes of the list.
C3_BorderWidth ==
    pc \notin {"new", "border"} =>
        /\ border_width >= 2
        /\ (size \div 40 >= 2) <=> (size >= 80)
        /\ size >= 80 => border_width = size \div 40
        /\ size < 80 => border_width = 2
        /\ \A k \in 1..8 :
              size = ListOrder[k] =>
                 border_width = <<2, 2, 3, 3, 3, 4, 9, 12>>[k]

C3_Witness ==
    /\ pc = "returned"
    /\ size = 512
    /\ border_width = 12

\* C4: main() leaves images/icons a directory whether or not it was one,
\* the directory being there already is never what makes the directory call
\* fail, and a run that completes after an earlier completed run has
\* overwritten the eight files and leaves the directory holding the same
\* set of paths as the earlier run left.
C4_DirectoryAndRerun ==
    /\ pc \notin {"main", "crashed"} => dirState = "dir"
    /\ crash = "makedirs" => dirState # "dir"
    /\ (pc = "summary" /\ completed >= 1) =>
          /\ DOMAIN fs = DOMAIN snapshot
          /\ \A p \in ExpectedPaths : fs[p].format = "PNG"

C4_Witness ==
    /\ pc = "summary"
    /\ completed = 1
    /\ run = 2
    /\ StrayPath \in DOMAIN fs

\* C5: when a run has saved all eight icons after an earlier run completed,
\* every icon that was drawn with the same font in both runs has the same
\* content in both, whatever the directory held before, whatever fonts the
\* other iterations used, and however many times the script has run.
C5_Deterministic ==
    (pc = "summary" /\ completed >= 1) =>
        \A s \in Range(ListOrder) :
           FontOf(fs[OutputPath(s)]) = FontOf(snapshot[OutputPath(s)]) =>
              fs[OutputPath(s)] = snapshot[OutputPath(s)]

C5_Witness ==
    /\ pc = "summary"
    /\ completed >= 1
    /\ FontOf(fs[OutputPath(72)]) # FontOf(snapshot[OutputPath(72)])
    /\ FontOf(fs[OutputPath(96)]) = FontOf(snapshot[OutputPath(96)])
    /\ FontOf(fs[OutputPath(96)]).kind = "truetype"

\* C6: once the text is measured, x = floor((size - text_width) / 2) and
\* the ink of the foreground text, from x + left to x + right, has left and
\* right margins that differ by at most 1 pixel.
C6_HorizontallyCentered ==
    pc \in {"text", "save", "print"} =>
        LET text_width == bbox[3] - bbox[1]
            left_margin == x + bbox[1]
            right_margin == size - (x + bbox[3])
        IN  /\ 2 * x <= size - text_width
            /\ size - text_width < 2 * x + 2
            /\ left_margin - right_margin \in {-1, 0, 1}

\* C7: no run ends because of the font: whenever the scalable font cannot
\* be loaded the default font is used, the text is drawn with it and the
\* file saved, and a run that completes has written all eight files, each
\* with its text, and printed the summary.
C7_FontFailureRecovered ==
    /\ crash \in {"none", "makedirs", "save"}
    /\ pc = "measure" =>
          font = IF fontAvailable
                 THEN [kind |-> "truetype", size |-> size \div 2]
                 ELSE [kind |-> "default", size |-> DefaultFontSize]
    /\ \A k \in 1..Len(written) :
          /\ Len(fs[written[k]].image.ops) = 3
          /\ FontOf(fs[written[k]]).kind \in {"truetype", "default"}
          /\ fs[written[k]].image.ops[3].op = "IM"
    /\ pc = "done" =>
          /\ Len(written) = 8
          /\ stdout[Len(stdout)] = SummaryLine

C7_Witness ==
    /\ pc = "done"
    /\ FontOf(fs[OutputPath(72)]).kind = "default"
    /\ FontOf(fs[OutputPath(96)]).kind = "truetype"
    /\ FontOf(fs[OutputPath(512)]).kind = "default"

\* What holds of a run a failed call has ended.
C8_AfterFailure ==
    /\ crash # "none" <=> pc = "crashed"
    /\ crash = "save" =>
          /\ calls = SubSeq(ListOrder, 1, i)
          /\ written = [k \in 1..(i - 1) |-> OutputPath(ListOrder[k])]
          /\ \A k \in 1..(i - 1) : fs[written[k]].format = "PNG"
          /\ \A k \in 1..Len(stdout) : stdout[k] # SummaryLine
    /\ crash = "makedirs" =>
          /\ calls = <<>>
          /\ written = <<>>
          /\ stdout = <<>>

\* C8: a failed save or directory creation ends the run there: a failed
\* save of the k-th icon leaves exactly the first k-1 icons written, no
\* later size generated and no summary printed; a failed directory creation
\* leaves no icon written; nothing is retried (a failed run takes no
\* further step); and a file this run has saved is never changed by the rest
\* of the run.
C8_FilesystemFailureFatal ==
    /\ []C8_AfterFailure
    /\ [][pc # "crashed"]_vars
    /\ [][\A k \in 1..Len(written) :
             written' = <<>> \/ fs'[written[k]] = fs[written[k]]]_vars

C8_Witness ==
    /\ crash = "save"
    /\ i = 3
    /\ Len(written) = 2
    /\ output_path \in DOMAIN fs
    /\ fs[output_path].format = "truncated"

\* What holds of the order of calls, saves and printed lines in every state.
C9_Order ==
    /\ calls = SubSeq(ListOrder, 1, i)
    /\ Len(written) \in {i - 1, i}
    /\ \A k \in 1..Len(written) : written[k] = OutputPath(ListOrder[k])
    /\ Cardinality(CreatedLines) <= Len(written)
    /\ \A k \in CreatedLines :
          /\ k <= Len(written)
          /\ stdout[k] = CreatedLine(written[k], ListOrder[k])
    /\ pc \in {"new", "border", "font", "measure", "text", "save"} =>
          /\ Len(written) = i - 1
          /\ Len(stdout) = i - 1
    /\ (\E k \in 1..Len(stdout) : stdout[k] = SummaryLine) =>
          /\ pc = "done"
          /\ Len(written) = 8
          /\ Len(stdout) = 9
          /\ stdout[9] = SummaryLine
          /\ SummaryLine = "\nSuccessfully generated 8 PWA icons!"

\* C9: icons are generated in list order; each file is saved and its
\* status line printed before the next size is begun, and no status line is
\* printed before its file is saved; the summary, with the count 8, is
\* printed only after all eight files are saved, and the run then ends (the
\* only step after it is a new run of the script).
C9_SequentialOrdered ==
    /\ []C9_Order
    /\ [][pc = "done" => (run' = run + 1 /\ pc' = "main")]_vars

C9_Witness ==
    /\ pc = "done"
    /\ Len(stdout) = 9
    /\ stdout[8] = "Created images/icons/icon-512x512.png (512x512)"

\* C10: for every size >= 1 the border rectangle is well formed and inside
\* the canvas: 0 <= border_width <= size - border_width <= size.
C10_BorderInsideCanvas ==
    pc \notin {"new", "border"} =>
        /\ 0 <= border_width
        /\ border_width <= size - border_width
        /\ size - border_width <= size

====
